---- MODULE Spec2Model ----
(***************************************************************************)
(* Model of crates/papyrus_network/src/bin/streamed_data_benchmark.rs:     *)
(* the event loop of main, the outbound-session gate, the inbound feeder   *)
(* and the per-session measurement.  The swarm and the streamed-data       *)
(* behaviour are the environment: they produce the events and answer the   *)
(* calls send_query, send_data and close_inbound_session.                  *)
(***************************************************************************)
EXTENDS Integers, Sequences, FiniteSets, TLC

\* ------------------------------------------------------------ bounds
MaxPeers == 3
MaxExpectedInbound == 2
MaxExpectedConnections == 3
MaxQueries == 2
MaxMessages == 2
MaxMessageSize == 1
MaxTime == 1
MaxEvents == 4
MaxOutboundSessions == 4

Peers == 1..MaxPeers

\* Option<T>: None is the empty set, Some(v) the singleton {v}.
None == {}
Some(v) == {v}
is_some(o) == o # {}
unwrap(o) == CHOOSE v \in o : TRUE

SetMin(S) == CHOOSE x \in S : \A y \in S : x <= y

\* ------------------------------------------------------------ u64
\* TLC's integers are narrower than u64, so a u64 is written in base 1024,
\* least significant digit first: 7 digits, the last one below 16.

\* the 1024.0 of pretty_size: the ratio of one size unit to the next
Kilo == 1024

\* the width of num_messages and message_size
U64Bits == 64

Digits == 1..((U64Bits + 9) \div 10)
TopDigit == (U64Bits + 9) \div 10
TopDigitLimit == 2 ^ (U64Bits - 10 * (TopDigit - 1))

\* the u64 of a number TLC can hold
u64(n) ==
    [i \in Digits |-> IF i <= 3 THEN (n \div (Kilo ^ (i - 1))) % Kilo
                      ELSE IF i = 4 THEN n \div (Kilo ^ 3) ELSE 0]

\* 2^e as a u64, e < U64Bits
pow2(e) == [i \in Digits |-> IF i = (e \div 10) + 1 THEN 2 ^ (e % 10) ELSE 0]

\* the sum of a[i] * b[j] over the digit pairs <<i, j>> of P
RECURSIVE sum_products(_, _, _)
sum_products(a, b, P) ==
    IF P = {} THEN 0
    ELSE LET p == CHOOSE q \in P : TRUE
         IN a[p[1]] * b[p[2]] + sum_products(a, b, P \ {p})

\* long multiplication from column k on, `carry` coming in from column k - 1;
\* P holds the pairs of non-zero digits
RECURSIVE columns_from(_, _, _, _, _)
columns_from(a, b, P, k, carry) ==
    IF k > 2 * TopDigit THEN <<>>
    ELSE LET t == sum_products(a, b, {p \in P : p[1] + p[2] = k + 1}) + carry
         IN <<t % Kilo>> \o columns_from(a, b, P, k + 1, t \div Kilo)

\* the exact product of two u64, 2 * TopDigit digits wide
wide_mul(a, b) ==
    columns_from(a, b,
                 {i \in Digits : a[i] # 0} \X {j \in Digits : b[j] # 0}, 1, 0)

\* whether a product needs more than U64Bits bits
overflows(w) ==
    \/ w[TopDigit] >= TopDigitLimit
    \/ \E k \in (TopDigit + 1)..(2 * TopDigit) : w[k] # 0

\* a product modulo 2^U64Bits: what `*` yields when overflow checks are off
wrapping(w) ==
    [i \in Digits |-> IF i = TopDigit THEN w[i] % TopDigitLimit ELSE w[i]]

\* ------------------------------------------------------------ f64 and pretty_size
\* The sizes print formats are whole numbers of bytes.  Such an f64 is written
\* like a u64 (its top digit may reach TopDigitLimit: 2^64 is an f64), and
\* size / 1024^j is the same digits with the point moved j digits up, which is
\* exact in binary floating point.

\* the number of bits of a digit
bit_length(x) == CHOOSE k \in 0..10 : x < 2 ^ k /\ (k = 0 \/ x >= 2 ^ (k - 1))

\* the number of bits of a u64
bits_of(n) ==
    LET used == {i \in Digits : n[i] # 0} IN
    IF used = {} THEN 0
    ELSE LET top == CHOOSE i \in used : \A j \in used : j <= i
         IN 10 * (top - 1) + bit_length(n[top])

\* `n as f64` (lines 161, 162): exact up to 53 bits, beyond them rounded to
\* the nearest multiple of q = 2^(bits - 53), ties to the even multiple; q
\* divides 1024^2, so the two low digits decide the rounding
as_f64(n) ==
    IF bits_of(n) <= 53 THEN n
    ELSE LET q == 2 ^ (bits_of(n) - 53)
             low == n[1] + Kilo * n[2]
             r == low % q
             odd == ((low - r) \div q) % 2 = 1
             up == 2 * r > q \/ (2 * r = q /\ odd)
             low2 == IF up THEN low - r + q ELSE low - r
             carry_into(i) ==
                 low2 = Kilo * Kilo /\ \A j \in 3..(i - 1) : n[j] = Kilo - 1
         IN [i \in Digits |->
               IF i = 1 THEN low2 % Kilo
               ELSE IF i = 2 THEN (low2 \div Kilo) % Kilo
               ELSE IF ~carry_into(i) THEN n[i]
               ELSE IF i = TopDigit THEN n[i] + 1
               ELSE (n[i] + 1) % Kilo]

\* line 15
Terms == <<"B", "KB", "MB", "GB">>

\* the test of line 16 with `<=` for `<`
fits_inclusive(size, j) ==
    \/ \A i \in Digits : i > j + 1 => size[i] = 0
    \/ /\ j + 2 \in Digits
       /\ size[j + 2] = 1
       /\ \A i \in Digits \ {j + 2} : size[i] = 0

\* line 16, after j divisions: size / 1024^j < 1024.0
fits(size, j) == \A i \in Digits : i > j + 1 => size[i] = 0

\* lines 15-20: how often the loop has divided when it is left
RECURSIVE divisions(_, _)
divisions(size, j) ==
    IF j = Len(Terms) \/ fits(size, j) THEN j ELSE divisions(size, j + 1)

\* `{:.2}` of size / 1024^j, in hundredths: the exact value rounded to two
\* decimals, ties to even.  whole is the part before the point; half[i] is
\* the floor of 200 times the fraction made of the digits 1..i, and whether
\* that floor dropped anything.
two_decimals(size, j) ==
    LET w[i \in (j + 1)..(TopDigit + 1)] ==
            IF i = TopDigit + 1 THEN 0 ELSE w[i + 1] * Kilo + size[i]
        whole == w[j + 1]
        half[i \in 0..j] ==
            IF i = 0 THEN [floor |-> 0, inexact |-> FALSE]
            ELSE LET v == 200 * size[i] + half[i - 1].floor
                 IN [floor |-> v \div Kilo,
                     inexact |-> half[i - 1].inexact \/ v % Kilo # 0]
        down == 100 * whole + half[j].floor \div 2
        up == /\ half[j].floor % 2 = 1
              /\ half[j].inexact \/ down % 2 = 1
    IN IF up THEN down + 1 ELSE down

\* lines 14-22: the text is the number with two decimals (kept in hundredths)
\* and the unit
pretty_size(size) ==
    LET j == divisions(size, 0) IN
    [hundredths |-> two_decimals(size, j),
     unit |-> IF j < Len(Terms) THEN Terms[j + 1] ELSE "TB"]

\* The payloads InboundSessionStart can carry (lines 94-98, 266) when the peer
\* runs this benchmark with arguments within the bounds.
StartMessages ==
    [num_messages : {u64(0), u64(MaxMessages)},
     message_size : {u64(MaxMessageSize)}]

VARIABLES
    args,                           \* struct Args, fixed by Args::parse()
    pc,                             \* position of main: await | feed_start | feed_retain | exited | fatal
    iter,                           \* keys the running HashMap iteration has not visited yet
    clock,                          \* last value Instant::now() returned
    outbound_session_measurements,  \* HashMap<OutboundSessionId, OutboundSessionMeasurement>
    inbound_session_to_messages,    \* HashMap<InboundSessionId, Vec<Vec<u8>>>
    connected_in_the_past,
    preprepared_messages,           \* Vec<Vec<Vec<u8>>>
    peers_pending_outbound_session, \* Vec<PeerId>
    connections,                    \* swarm: connected peers (network_info().num_peers())
    live_inbound,                   \* behaviour: inbound session ids it knows
    open_outbound,                  \* behaviour: outbound session ids it knows
    queries,                        \* behaviour: accepted send_query calls, index = OutboundSessionId
    inbound_seen,                   \* behaviour: inbound session ids handed out so far
    dials,                          \* calls of dial() so far
    dial_errors,                    \* OutgoingConnectionError events handled
    events_read,                    \* events swarm.next() has returned
    calls,                          \* per inbound session inserted in the table: the send_data /
                                    \* close_inbound_session calls issued on it, in order
    failed_sessions,                \* inbound sessions a SessionFailed event was handled for
    last_report                     \* what print() printed while the last event was handled

core == <<outbound_session_measurements, inbound_session_to_messages,
          connected_in_the_past, preprepared_messages,
          peers_pending_outbound_session>>
swarm == <<connections, live_inbound, open_outbound, queries, inbound_seen,
           dials, dial_errors>>
vars == <<args, pc, iter, clock, core, swarm, events_read, calls,
          failed_sessions, last_report>>

\* ------------------------------------------------------------ helpers

\* HashMap::insert
insert(map, k, v) ==
    [x \in (DOMAIN map) \cup {k} |-> IF x = k THEN v ELSE map[x]]

\* HashMap entry removal (retain's closure returned false)
remove(map, k) == [x \in (DOMAIN map) \ {k} |-> map[x]]

\* Vec::pop: the vector without its last element
pop_rest(v) == SubSeq(v, 1, Len(v) - 1)

\* Instant::now() on a monotonic clock: the same reading again, or a later one.
Readings(from) == {t \in {from, from + 1} : t <= MaxTime}

\* ------------------------------------------------------------ construction

\* lines 219-225: one batch per expected inbound session, each of
\* num_messages_per_session buffers of message_size bytes (a buffer is
\* modelled by its length; its bytes are all 1).
preprepared(a) ==
    [i \in 1..a.num_expected_inbound_sessions |->
        [j \in 1..a.num_messages_per_session |-> a.message_size]]

\* dial_if_requested without the `if let Some(..)`
dial_always(a, d) == d + 1

\* line 195-199
dial_if_requested(a, d) == IF a.dial_address THEN d + 1 ELSE d

AllArgs ==
    [dial_address : BOOLEAN,
     num_expected_inbound_sessions : 0..MaxExpectedInbound,
     num_expected_connections : 0..MaxExpectedConnections,
     num_queries_per_connection : 0..MaxQueries,
     num_messages_per_session : 0..MaxMessages,
     message_size : {MaxMessageSize}]

\* The command lines the runs start from: a node that only queries (it expects
\* no inbound session), a node that only answers (it sends no query), and a
\* node that does both, with one expected peer and one query for it.
Requester(a) ==
    a.num_expected_inbound_sessions = 0 /\ a.num_messages_per_session = 0
Responder(a) == a.num_queries_per_connection = 0
Both(a) ==
    a.num_expected_connections = 1 /\ a.num_queries_per_connection = 1
ArgsSet == {a \in AllArgs : Requester(a) \/ Responder(a) \/ Both(a)}

\* What print() printed: which of its branches ran, the numbers it showed
\* before formatting, and how many divisions it evaluated.
NotShown == [hundredths |-> 0, unit |-> "-"]

NoReport ==
    [kind |-> "none", session |-> 0, num_messages |-> u64(0),
     message_size |-> u64(0), total_bytes |-> u64(0),
     size_shown |-> NotShown, total_shown |-> NotShown, elapsed |-> 0,
     messages_elapsed |-> 0, divisions |-> 0]

Init ==
    /\ args \in ArgsSet
    /\ pc = "await"
    /\ iter = {}
    /\ clock = 0
    /\ outbound_session_measurements = <<>>
    /\ inbound_session_to_messages = <<>>
    /\ connected_in_the_past = FALSE
    /\ preprepared_messages = preprepared(args)
    /\ peers_pending_outbound_session = <<>>
    /\ connections = {}
    /\ live_inbound = {}
    /\ open_outbound = {}
    /\ queries = <<>>
    /\ inbound_seen = 0
    /\ dials = dial_if_requested(args, 0)
    /\ dial_errors = 0
    /\ events_read = 0
    /\ calls = <<>>
    /\ failed_sessions = {}
    /\ last_report = NoReport

\* ------------------------------------------------------------ the environment's answers

\* Behaviour::send_query: rejected (PeerNotConnected) unless the peer is connected.
send_query_ok(peer, conns) == peer \in conns

\* Behaviour::send_data / close_inbound_session: rejected (SessionIdNotFoundError)
\* unless the behaviour still knows the session.
session_known(session, live) == session \in live

\* ------------------------------------------------------------ termination check

\* the termination check without `connected_in_the_past &&`
should_exit_ignoring_history(connected, num_peers) == num_peers = 0

\* line 302
should_exit(connected, num_peers) == connected /\ num_peers = 0

\* lines 302-304: where main is after a handler has returned
after_event(connected, conns) ==
    IF should_exit(connected, Cardinality(conns)) THEN "exited" ELSE "await"

\* `while let Some(event) = swarm.next().await`: main is waiting and the
\* stream hands it one more event.
ReadsEvent ==
    /\ pc = "await"
    /\ events_read < MaxEvents
    /\ events_read' = events_read + 1

\* ------------------------------------------------------------ Connection gate

\* line 70
all_peers_connected(pending, a) == Len(pending) >= a.num_expected_connections

\* lines 71-74: the send_query calls of one batch, in the order issued
QueryBatch(pending, a) ==
    LET q == a.num_queries_per_connection IN
    [j \in 1..(Len(pending) * q) |->
        [peer |-> pending[((j - 1) \div q) + 1], number |-> (j - 1) % q]]

\* lines 180-187
new_measurement(t) ==
    [start_time |-> t, first_message_time |-> None,
     num_messages |-> None, message_size |-> None]

\* the insert of lines 78-79 moved after the loops: only the session created
\* last gets a measurement
insert_last_measurement(table, ids, t) ==
    [x \in (DOMAIN table) \cup {i \in ids : \A j \in ids : j <= i} |->
        IF x \in ids THEN new_measurement(t) ELSE table[x]]

\* lines 78-79, for every session id the batch's send_query calls returned
insert_measurements(table, ids, t) ==
    [x \in (DOMAIN table) \cup ids |->
        IF x \in ids THEN new_measurement(t) ELSE table[x]]

\* the peers that have connected so far
seen_peers ==
    {peers_pending_outbound_session[i] :
        i \in 1..Len(peers_pending_outbound_session)}

\* lines 62-83, called from lines 234-244.  PeerIds are opaque: the peers are
\* numbered in the order of their first connection.
ConnectionEstablished(p) ==
    /\ ReadsEvent
    /\ last_report' = NoReport
    /\ p \in Peers \ connections
    /\ p <= Cardinality(seen_peers) + 1
    /\ LET conns == connections \cup {p}
           pending == Append(peers_pending_outbound_session, p)
           batch == IF all_peers_connected(pending, args)
                    THEN QueryBatch(pending, args) ELSE <<>>
           bad == {j \in 1..Len(batch) : ~send_query_ok(batch[j].peer, conns)}
           accepted == IF bad = {} THEN batch
                       ELSE SubSeq(batch, 1, SetMin(bad) - 1)
           ids == (Len(queries) + 1)..(Len(queries) + Len(accepted))
       IN
       /\ Len(queries) + Len(batch) <= MaxOutboundSessions
       /\ connections' = conns
       /\ connected_in_the_past' = TRUE
       /\ peers_pending_outbound_session' = pending
       /\ queries' = queries \o accepted
       /\ open_outbound' = open_outbound \cup ids
       \* every session of the batch is stamped with one reading of the clock:
       \* no handler compares the start times of two sessions
       /\ \E t \in (IF ids = {} THEN {clock} ELSE Readings(clock)) :
            /\ clock' = t
            /\ outbound_session_measurements' =
                 insert_measurements(outbound_session_measurements, ids, t)
       /\ pc' = IF bad # {} THEN "fatal" ELSE after_event(TRUE, conns)
    /\ UNCHANGED <<args, iter, inbound_session_to_messages, preprepared_messages,
                   live_inbound, inbound_seen, dials, dial_errors, calls,
                   failed_sessions>>

\* ------------------------------------------------------------ Measurement

\* report_first_message that records the time and forgets the two counts
report_first_message_time_only(m, t, start) ==
    [m EXCEPT !.first_message_time = Some(t)]

\* lines 188-192
report_first_message(m, t, start) ==
    [m EXCEPT !.first_message_time = Some(t),
              !.num_messages = Some(start.num_messages),
              !.message_size = Some(start.message_size)]

\* lines 147-177, with first_message_time already unwrapped to `first`; t1 and
\* t2 are the clock readings of lines 147 and 148.  message_size * num_messages
\* (lines 162, 170, 176) is a u64 product: a build with overflow checks panics
\* when it does not fit, a build without them wraps.
finished_report(m, session, first, t1, t2, overflow_checks) ==
    IF ~is_some(m.num_messages) \/ ~is_some(m.message_size)
    THEN [NoReport EXCEPT !.kind = "panic", !.session = session]
    ELSE LET product == wide_mul(unwrap(m.message_size),
                                 unwrap(m.num_messages))
         IN
         IF overflow_checks /\ overflows(product)
         THEN [NoReport EXCEPT !.kind = "overflow", !.session = session]
         ELSE [kind |-> "finished", session |-> session,
               num_messages |-> unwrap(m.num_messages),
               message_size |-> unwrap(m.message_size),
               total_bytes |-> wrapping(product),
               size_shown |-> pretty_size(as_f64(unwrap(m.message_size))),
               total_shown |-> pretty_size(as_f64(wrapping(product))),
               elapsed |-> t2 - m.start_time,
               messages_elapsed |-> t1 - first,
               divisions |-> 4]

\* print with lines 147 and 148 exchanged: start_time.elapsed() is read first
print_swapped_reads(m, session, t1, t2, overflow_checks) ==
    IF ~is_some(m.first_message_time)
    THEN [NoReport EXCEPT !.kind = "no_messages", !.session = session]
    ELSE finished_report(m, session, unwrap(m.first_message_time), t2, t1,
                         overflow_checks)

\* print with `first_message_time.unwrap_or(start_time)` for the let-else of
\* lines 141-146
print_without_early_return(m, session, t1, t2, overflow_checks) ==
    finished_report(m, session,
                    IF is_some(m.first_message_time)
                    THEN unwrap(m.first_message_time) ELSE m.start_time,
                    t1, t2, overflow_checks)

\* lines 140-178
print(m, session, t1, t2, overflow_checks) ==
    IF ~is_some(m.first_message_time)
    THEN [NoReport EXCEPT !.kind = "no_messages", !.session = session]
    ELSE finished_report(m, session, unwrap(m.first_message_time), t1, t2,
                         overflow_checks)

\* lines 265-272, data.msg = Some(Msg::Start(..))
ReceivedStart(o, start) ==
    /\ ReadsEvent
    /\ last_report' = NoReport
    /\ o \in open_outbound
    /\ IF o \in DOMAIN outbound_session_measurements
       THEN \E t \in Readings(clock) :
              /\ clock' = t
              /\ outbound_session_measurements' =
                   [outbound_session_measurements EXCEPT
                      ![o] = report_first_message(@, t, start)]
              /\ pc' = after_event(connected_in_the_past, connections)
       ELSE /\ pc' = "fatal"
            /\ UNCHANGED <<clock, outbound_session_measurements>>
    /\ UNCHANGED <<args, iter, inbound_session_to_messages, connected_in_the_past,
                   preprepared_messages, peers_pending_outbound_session, swarm,
                   calls, failed_sessions>>

\* lines 265-272, data.msg is a content message (or empty): nothing is done
ReceivedContent(o) ==
    /\ ReadsEvent
    /\ last_report' = NoReport
    /\ o \in open_outbound
    /\ pc' = after_event(connected_in_the_past, connections)
    /\ UNCHANGED <<args, iter, clock, core, swarm, calls,
                   failed_sessions>>

\* lines 260-264
OutboundSessionFinished(o) ==
    /\ ReadsEvent
    /\ o \in open_outbound
    /\ open_outbound' = open_outbound \ {o}
    /\ IF o \in DOMAIN outbound_session_measurements
       THEN LET m == outbound_session_measurements[o] IN
            \E t1 \in (IF is_some(m.first_message_time)
                       THEN Readings(clock) ELSE {clock}) :
            \E t2 \in (IF is_some(m.first_message_time)
                       THEN Readings(t1) ELSE {clock}) :
            \E overflow_checks \in BOOLEAN :
              /\ clock' = t2
              /\ last_report' = print(m, o, t1, t2, overflow_checks)
              /\ pc' = IF last_report'.kind \in {"panic", "overflow"}
                       THEN "fatal"
                       ELSE after_event(connected_in_the_past, connections)
       ELSE /\ pc' = "fatal"
            /\ last_report' = NoReport
            /\ clock' = clock
    /\ UNCHANGED <<args, iter, core, connections, live_inbound, queries,
                   inbound_seen, dials, dial_errors, calls,
                   failed_sessions>>

\* ------------------------------------------------------------ Inbound feeder

\* line 252 without the is_empty() test: feed on every arrival
should_feed_always(pending_batches) == TRUE

\* line 252
should_feed(pending_batches) == pending_batches = <<>>

\* a closure that closes the session while one buffer is left
retain_keeps_off_by_one(messages) == Len(messages) > 1

\* lines 107-127: what the retain closure returns for a session whose buffer
\* vector is `messages` (Some(_) arm: true, None arm: false)
retain_keeps(messages) == Len(messages) > 0

\* a `break` at the end of the body of the loop of lines 90-105
start_loop_ends_at_once(remaining, session) == TRUE

\* lines 90-105: the `for` over keys() ends with the last key
start_loop_ends(remaining, session) == remaining = {session}

\* an inner `while let Some(message) = messages.pop()`: a pass stays with a
\* session until its buffers are sent
unvisited_after_drain(remaining, session, keeps) ==
    IF keeps THEN remaining ELSE remaining \ {session}

\* line 107: retain calls the closure once per entry; what is left of the pass
unvisited(remaining, session, keeps) == remaining \ {session}

\* line 106 with `if` for `while`: one pass
loop_once(table) == FALSE

\* line 106, read again after a pass
loop_again(table) == DOMAIN table # {}

\* `let _ = ...send_data(..)`: a rejected call is dropped silently
call_outcome_ignored(ok) == "ok"

\* lines 102-104, 115-117, 122-124: a rejected call panics
call_outcome(ok) == IF ok THEN "ok" ELSE "panic"

\* `.pop().unwrap_or_default()`: an arrival past the expected count gets an
\* empty batch
pop_or_default(v) == IF v = <<>> THEN Some(<<>>) ELSE Some(v[Len(v)])

\* Vec::pop: the last element, if there is one (lines 248-249)
pop(v) == IF v = <<>> THEN None ELSE Some(v[Len(v)])

\* lines 245-259
NewInboundSession ==
    /\ ReadsEvent
    /\ connections # {}
    /\ last_report' = NoReport
    /\ LET session == inbound_seen + 1
           batch == pop(preprepared_messages)
       IN
       /\ inbound_seen' = session
       /\ live_inbound' = live_inbound \cup {session}
       /\ IF ~is_some(batch)
          THEN \* line 250: expect() panics before the insert
               /\ pc' = "fatal"
               /\ UNCHANGED <<preprepared_messages, inbound_session_to_messages,
                              calls, iter>>
          ELSE /\ preprepared_messages' = pop_rest(preprepared_messages)
               /\ inbound_session_to_messages' =
                    insert(inbound_session_to_messages, session, unwrap(batch))
               /\ calls' = insert(calls, session, <<>>)
               /\ IF should_feed(preprepared_messages')
                  THEN /\ pc' = "feed_start"
                       /\ iter' = DOMAIN inbound_session_to_messages'
                  ELSE /\ pc' = after_event(connected_in_the_past, connections)
                       /\ iter' = iter
    /\ UNCHANGED <<args, clock, outbound_session_measurements,
                   connected_in_the_past, peers_pending_outbound_session,
                   connections, open_outbound, queries, dials, dial_errors,
                   failed_sessions>>

\* lines 90-105: one iteration of `for inbound_session_id in keys()`; the
\* HashMap hands out its keys in an order of its own
FeedStart(session) ==
    /\ pc = "feed_start"
    /\ session \in iter
    /\ LET ok == session_known(session, live_inbound) IN
       /\ calls' = [calls EXCEPT ![session] = Append(@, [op |-> "start", ok |-> ok])]
       /\ IF call_outcome(ok) = "panic"
          THEN pc' = "fatal" /\ iter' = iter
          ELSE IF start_loop_ends(iter, session)
          THEN \* line 106: the table holds at least this session
               pc' = "feed_retain" /\ iter' = DOMAIN inbound_session_to_messages
          ELSE pc' = "feed_start" /\ iter' = iter \ {session}
    /\ UNCHANGED <<args, clock, core, swarm, events_read,
                   failed_sessions, last_report>>

\* lines 106-128: one call of the retain closure; after the last entry of a
\* pass the `while` condition is read again, and an empty table ends the
\* handler (lines 302-304 follow)
FeedRetain(session) ==
    /\ pc = "feed_retain"
    /\ session \in iter
    /\ LET messages == inbound_session_to_messages[session]
           keeps == retain_keeps(messages)
           ok == session_known(session, live_inbound)
           table == IF keeps
                    THEN [inbound_session_to_messages EXCEPT
                            ![session] = pop_rest(messages)]
                    ELSE remove(inbound_session_to_messages, session)
       IN
       /\ calls' = [calls EXCEPT ![session] =
                    Append(@, [op |-> IF keeps THEN "content" ELSE "close",
                               ok |-> ok])]
       /\ IF call_outcome(ok) = "panic"
          THEN /\ pc' = "fatal"
               /\ iter' = iter
               /\ inbound_session_to_messages' =
                    IF keeps THEN table ELSE inbound_session_to_messages
          ELSE /\ inbound_session_to_messages' = table
               /\ LET rest == unvisited(iter, session, keeps) IN
                  IF rest # {}
                  THEN pc' = "feed_retain" /\ iter' = rest
                  ELSE IF loop_again(table)
                  THEN pc' = "feed_retain" /\ iter' = DOMAIN table
                  ELSE /\ pc' = after_event(connected_in_the_past, connections)
                       /\ iter' = {}
    /\ UNCHANGED <<args, clock, outbound_session_measurements,
                   connected_in_the_past, preprepared_messages,
                   peers_pending_outbound_session, swarm, events_read,
                   failed_sessions, last_report>>

\* ------------------------------------------------------------ the other events

\* lines 273-275
OutgoingConnectionError ==
    /\ ReadsEvent
    /\ last_report' = NoReport
    /\ dial_errors' = dial_errors + 1
    /\ dials' = dial_if_requested(args, dials)
    /\ pc' = after_event(connected_in_the_past, connections)
    /\ UNCHANGED <<args, iter, clock, core, connections, live_inbound,
                   open_outbound, queries, inbound_seen, calls,
                   failed_sessions>>

\* lines 276-291, an inbound session; the behaviour has dropped the session
\* it reports as failed (ConnectionClosed and IOError differ in the line printed)
InboundSessionFailed(session) ==
    /\ ReadsEvent
    /\ last_report' = NoReport
    /\ session \in live_inbound
    /\ live_inbound' = live_inbound \ {session}
    /\ failed_sessions' = failed_sessions \cup {session}
    /\ pc' = after_event(connected_in_the_past, connections)
    /\ UNCHANGED <<args, iter, clock, core, connections, open_outbound, queries,
                   inbound_seen, dials, dial_errors, calls>>

\* lines 276-291, an outbound session
OutboundSessionFailed(o) ==
    /\ ReadsEvent
    /\ last_report' = NoReport
    /\ o \in open_outbound
    /\ open_outbound' = open_outbound \ {o}
    /\ pc' = after_event(connected_in_the_past, connections)
    /\ UNCHANGED <<args, iter, clock, core, connections, live_inbound, queries,
                   inbound_seen, dials, dial_errors, calls,
                   failed_sessions>>

\* lines 292-294: an inbound session the core has closed finished
InboundSessionFinished(session) ==
    /\ ReadsEvent
    /\ last_report' = NoReport
    /\ session \in live_inbound
    /\ session \in DOMAIN calls
    /\ calls[session] # <<>>
    /\ calls[session][Len(calls[session])] = [op |-> "close", ok |-> TRUE]
    /\ live_inbound' = live_inbound \ {session}
    /\ pc' = after_event(connected_in_the_past, connections)
    /\ UNCHANGED <<args, iter, clock, core, connections, open_outbound, queries,
                   inbound_seen, dials, dial_errors, calls,
                   failed_sessions>>

\* line 297, ConnectionClosed: the swarm has dropped the peer
ConnectionClosed(p) ==
    /\ ReadsEvent
    /\ last_report' = NoReport
    /\ p \in connections
    /\ connections' = connections \ {p}
    /\ pc' = after_event(connected_in_the_past, connections')
    /\ UNCHANGED <<args, iter, clock, core, live_inbound, open_outbound, queries,
                   inbound_seen, dials, dial_errors, calls,
                   failed_sessions>>

\* lines 295-297, NewListenAddr and IncomingConnection
IgnoredEvent ==
    /\ ReadsEvent
    /\ last_report' = NoReport
    /\ pc' = after_event(connected_in_the_past, connections)
    /\ UNCHANGED <<args, iter, clock, core, swarm, calls,
                   failed_sessions>>

\* lines 298-300
UnexpectedEvent ==
    /\ ReadsEvent
    /\ last_report' = NoReport
    /\ pc' = "fatal"
    /\ UNCHANGED <<args, iter, clock, core, swarm, calls,
                   failed_sessions>>

\* ------------------------------------------------------------ specification

Next ==
    \/ \E p \in Peers : ConnectionEstablished(p)
    \/ \E p \in Peers : ConnectionClosed(p)
    \/ NewInboundSession
    \/ \E session \in iter : FeedStart(session)
    \/ \E session \in iter : FeedRetain(session)
    \/ \E o \in open_outbound : \E start \in StartMessages : ReceivedStart(o, start)
    \/ \E o \in open_outbound : ReceivedContent(o)
    \/ \E o \in open_outbound : OutboundSessionFinished(o)
    \/ \E o \in open_outbound : OutboundSessionFailed(o)
    \/ \E session \in live_inbound : InboundSessionFailed(session)
    \/ \E session \in live_inbound : InboundSessionFinished(session)
    \/ OutgoingConnectionError
    \/ IgnoredEvent
    \/ UnexpectedEvent

Spec == Init /\ [][Next]_vars

\* ------------------------------------------------------------ the feeder runs on
\* send_data_to_inbound_sessions is straight-line code between two awaits:
\* once entered, its next step is taken.

Feed == \E session \in iter : FeedStart(session) \/ FeedRetain(session)

FairSpec == Spec /\ WF_vars(Feed)

\* ------------------------------------------------------------ one session, any start message
\* The measurement of one outbound session, for the start messages a peer can
\* put on the wire: any two u64.  Sizes are sampled around every unit of
\* pretty_size: digit a at position i, digit b below it and c in the lowest
\* digit, and u64::MAX.

SampleDigits == {0, 1, Kilo \div 2, Kilo - 1}

SizeSamples ==
    {size \in
       {[k \in Digits |-> IF k = i THEN a
                          ELSE IF k = i - 1 THEN b
                          ELSE IF k = 1 THEN c ELSE 0] :
           i \in Digits, a \in SampleDigits, b \in SampleDigits, c \in {0, 1}} :
       size[TopDigit] < TopDigitLimit}
    \cup {[k \in Digits |-> IF k < TopDigit THEN Kilo - 1
                            ELSE TopDigitLimit - 1]}

CountSamples == {u64(0), u64(MaxMessages), pow2(U64Bits \div 2)}

WideStartMessages == [num_messages : CountSamples, message_size : SizeSamples]

\* main started with -c 1 -q 1 -i 0 and no dial address
MeasureInit ==
    /\ Init
    /\ ~args.dial_address
    /\ Requester(args)
    /\ Both(args)

MeasureNext ==
    \/ ConnectionEstablished(1)
    \/ \E o \in open_outbound : \E start \in WideStartMessages :
         ReceivedStart(o, start)
    \/ \E o \in open_outbound : OutboundSessionFinished(o)

MeasureSpec == MeasureInit /\ [][MeasureNext]_vars

\* ------------------------------------------------------------ claims

\* the operations of the calls issued on an inbound session, in order
Ops(log) == [i \in 1..Len(log) |-> log[i].op]

IsPrefix(s, t) == Len(s) <= Len(t) /\ \A i \in 1..Len(s) : s[i] = t[i]

\* start, then num_messages_per_session payloads, then close
Lifecycle ==
    <<"start">> \o [i \in 1..args.num_messages_per_session |-> "content"]
                \o <<"close">>

\* the sequence numbers of the queries sent to peer p, in the order sent
NumbersSentTo(p) ==
    LET sent == SelectSeq(queries, LAMBDA r : r.peer = p)
    IN [i \in 1..Len(sent) |-> sent[i].number]

Rejected(log) == {i \in 1..Len(log) : ~log[i].ok}

\* C1: while fewer new-inbound-session events have been handled than
\* num_expected_inbound_sessions, nothing has been sent to any inbound
\* session, the ones already claimed included.
C1_NoSendBeforeLastExpectedSession ==
    inbound_seen < args.num_expected_inbound_sessions
        => \A session \in DOMAIN calls : calls[session] = <<>>

\* C1 witness: a session is claimed and holds its batch while another one is
\* still expected.
C1_Witness ==
    /\ inbound_seen >= 1
    /\ inbound_seen < args.num_expected_inbound_sessions
    /\ 1 \in DOMAIN inbound_session_to_messages
    /\ Len(inbound_session_to_messages[1]) = MaxMessages

\* C2: the calls issued on a claimed inbound session are always a prefix of
\* start, num_messages_per_session payloads, close; once the feeder has dropped
\* the session from its table they are that whole sequence, so nothing follows
\* the close.
C2_SessionLifecycle ==
    \A session \in DOMAIN calls :
        /\ IsPrefix(Ops(calls[session]), Lifecycle)
        /\ session \notin DOMAIN inbound_session_to_messages
             => Ops(calls[session]) = Lifecycle

\* C2 witness: a session was fed two payloads and closed.
C2_Witness ==
    /\ args.num_messages_per_session = 2
    /\ \E session \in DOMAIN calls :
         /\ session \notin DOMAIN inbound_session_to_messages
         /\ Ops(calls[session]) = <<"start", "content", "content", "close">>

\* C3 (as claimed): after the k-th connection-established event no outbound
\* session exists if k < num_expected_connections; if k equals it, there are
\* num_expected_connections * num_queries_per_connection of them, the i-th
\* peer was sent the numbers 0 .. num_queries_per_connection - 1 in the i-th
\* block, and a peer that connected once was sent each number once.
C3_SessionsAtThreshold ==
    LET k == Len(peers_pending_outbound_session)
        n == args.num_expected_connections
        q == args.num_queries_per_connection
    IN   /\ k < n => queries = <<>>
         /\ k = n =>
              /\ Len(queries) = n * q
              /\ \A i \in 1..n : \A number \in 0..(q - 1) :
                   queries[(i - 1) * q + number + 1] =
                     [peer |-> peers_pending_outbound_session[i],
                      number |-> number]
              /\ \A p \in Peers :
                   Cardinality({i \in 1..n :
                                  peers_pending_outbound_session[i] = p}) = 1
                     => NumbersSentTo(p) = [j \in 1..q |-> j - 1]

\* C4 (as claimed): once a measurement holds a first message time, no step
\* changes that measurement.
C4_FirstMessageRecordedOnce ==
    [][\A o \in DOMAIN outbound_session_measurements :
          is_some(outbound_session_measurements[o].first_message_time)
            => outbound_session_measurements'[o] =
                 outbound_session_measurements[o]]_vars

\* C5: every measurement has first_message_time, num_messages and
\* message_size all unset or all set, and print never panics on a missing count.
C5_AllSetOrAllUnset ==
    /\ \A o \in DOMAIN outbound_session_measurements :
         LET m == outbound_session_measurements[o] IN
         /\ is_some(m.first_message_time) <=> is_some(m.num_messages)
         /\ is_some(m.num_messages) <=> is_some(m.message_size)
    /\ last_report.kind # "panic"

\* C5 witness: a start message was recorded and the session then reported.
C5_Witness ==
    /\ last_report.kind = "finished"
    /\ \E o \in DOMAIN outbound_session_measurements :
         LET m == outbound_session_measurements[o] IN
         /\ is_some(m.first_message_time)
         /\ is_some(m.num_messages)
         /\ is_some(m.message_size)

\* C6: a report of a session that saw a start message never shows a total
\* time shorter than the sending time.
C6_TotalAtLeastSending ==
    last_report.kind = "finished"
        => last_report.elapsed >= last_report.messages_elapsed

\* C6 witness: a report whose two readings of the clock differ.
C6_Witness ==
    /\ last_report.kind = "finished"
    /\ last_report.elapsed = 1
    /\ last_report.messages_elapsed = 0

\* C7: main has left the loop only if a connection was ever established and
\* no peer is left, and then it takes no further step (it reads no event);
\* while it waits for an event after a connection was established, some peer
\* is connected.
C7_ExitOnlyAfterConnectionAndNoPeer ==
    /\ pc = "exited" =>
         /\ connected_in_the_past
         /\ connections = {}
         /\ ~ENABLED Next
    /\ (pc = "await" /\ connected_in_the_past) => connections # {}

\* C7 witness: events were handled with no peer connected, a peer connected
\* and left, and main has left the loop.
C7_Witness ==
    /\ pc = "exited"
    /\ dial_errors >= 1
    /\ events_read < MaxEvents

\* C8 (as claimed): once a SessionFailed event was handled for an inbound
\* session, no step issues a call on that session.
C8_NoCallOnFailedSession ==
    [][\A session \in failed_sessions \cap DOMAIN calls :
          calls'[session] = calls[session]]_vars

\* C9: dial() was called once at start-up and once per OutgoingConnectionError
\* handled when a dial address is configured, and never otherwise.
C9_OneDialPerError ==
    dials = IF args.dial_address THEN 1 + dial_errors ELSE 0

\* C9 witness: two dial errors were handled with a dial address configured.
C9_Witness ==
    /\ args.dial_address
    /\ dial_errors = 2
    /\ dials = 3

\* C10: a call the behaviour rejects is the last call issued at all: it is the
\* only rejected one, the last on its session, and main is in the fatal state,
\* where it issues nothing more.
C10_RejectedCallIsFatal ==
    \A session \in DOMAIN calls :
        Rejected(calls[session]) # {} =>
            /\ pc = "fatal"
            /\ Rejected(calls[session]) = {Len(calls[session])}
            /\ \A other \in DOMAIN calls \ {session} :
                 Rejected(calls[other]) = {}
            /\ ~ENABLED Next

\* C10 witness: the start message for a session that had failed was rejected
\* after another session had received its own.
C10_Witness ==
    \E session \in DOMAIN calls : \E other \in DOMAIN calls :
        /\ Rejected(calls[session]) # {}
        /\ Ops(calls[other]) = <<"start">>

\* C11: a new-inbound-session event handled while preprepared_messages is
\* empty (one more session than expected: after the feed has run, or the first
\* one when none is expected) ends main in the fatal state and leaves the feed
\* table, the batches and the calls issued as they were.
C11_ExtraInboundSessionIsFatal ==
    [][(inbound_seen' = inbound_seen + 1 /\ preprepared_messages = <<>>)
          => /\ pc' = "fatal"
             /\ inbound_session_to_messages' = inbound_session_to_messages
             /\ preprepared_messages' = preprepared_messages
             /\ calls' = calls]_vars

\* C11 witness: the one expected session was fed and closed, and a second
\* session then arrived.
C11_Witness ==
    /\ args.num_expected_inbound_sessions = 1
    /\ inbound_seen = 2
    /\ pc = "fatal"
    /\ inbound_session_to_messages = <<>>
    /\ DOMAIN calls = {1}
    /\ Ops(calls[1]) = Lifecycle

\* C12: when a finished-successfully event is handled for an outbound session
\* whose measurement holds no first message time, print takes its early
\* return: the report is the no-messages line alone (no count, no size, no
\* elapsed time, no division), the clock is not read, and main goes on to the
\* termination check instead of the fatal state.
C12_NoDataReport ==
    [][\A o \in open_outbound \cap DOMAIN outbound_session_measurements :
         (/\ OutboundSessionFinished(o)
          /\ ~is_some(outbound_session_measurements[o].first_message_time))
           => /\ last_report' =
                   [NoReport EXCEPT !.kind = "no_messages", !.session = o]
              /\ last_report'.divisions = 0
              /\ clock' = clock
              /\ pc' = after_event(connected_in_the_past, connections)]_vars

\* C12 witness: a session that received no start message was reported, while
\* another session still waits, and main reads on.
C12_Witness ==
    /\ last_report.kind = "no_messages"
    /\ ~is_some(outbound_session_measurements[last_report.session]
                   .first_message_time)
    /\ open_outbound # {}
    /\ pc = "await"

\* how often a size can be divided by 1024 while it is at least 1024
needed_divisions(size) ==
    LET used == {i \in Digits : size[i] # 0} IN
    IF used = {} THEN 0
    ELSE (CHOOSE i \in used : \A j \in used : j <= i) - 1

AllUnits == <<"B", "KB", "MB", "GB", "TB">>

\* the three sizes whose text the specification gives
shown_examples(size, shown) ==
    /\ size = u64(0) => shown = [hundredths |-> 0, unit |-> "B"]
    /\ size = u64(1536) => shown = [hundredths |-> 150, unit |-> "KB"]
    /\ size = u64(1073741824) => shown = [hundredths |-> 100, unit |-> "GB"]

\* the sizes print formatted for the last report, each with its text
formatted_sizes ==
    IF last_report.kind # "finished" THEN {}
    ELSE {<<as_f64(last_report.message_size), last_report.size_shown>>,
          <<as_f64(last_report.total_bytes), last_report.total_shown>>}

\* C13 (as claimed): every size print formats is shown with the unit of the
\* number of divisions by 1024 that bring it below 1024, one of B, KB, MB, GB,
\* TB, and with a number below 1024.00; 0 is "0.00 B", 1536 is "1.50 KB" and
\* 1073741824 is "1.00 GB".
C13_DisplayedBelowKilo ==
    \A f \in formatted_sizes :
        LET n == needed_divisions(f[1]) IN
        /\ n + 1 \in DOMAIN AllUnits
        /\ f[2].unit = AllUnits[n + 1]
        /\ f[2].hundredths < 100 * Kilo
        /\ shown_examples(f[1], f[2])

\* C13 (amended): the unit is that of the divisions needed, but never past
\* TB.  Up to TB the number shown is the leading digit of the size in base
\* 1024 with two decimals, which rounding can bring up to 1024.00 itself; a
\* size of 1024 TB or more is shown in TB with a number of 1024.00 or more.
\* The three examples are as the specification gives them.
C13_UnitAndRange ==
    \A f \in formatted_sizes :
        LET n == needed_divisions(f[1])
            j == IF n < Len(AllUnits) THEN n ELSE Len(AllUnits) - 1
        IN
        /\ f[2].unit = AllUnits[j + 1]
        /\ n = j => /\ f[2].hundredths >= 100 * f[1][j + 1]
                    /\ f[2].hundredths <= 100 * (f[1][j + 1] + 1)
                    /\ f[2].hundredths <= 100 * Kilo
        /\ n > j => f[2].hundredths >= 100 * Kilo
        /\ shown_examples(f[1], f[2])

\* C13 witness: a session of 2 messages of 1536 bytes was reported: "1.50 KB"
\* each, "3.00 KB" in total.
C13_Witness ==
    /\ last_report.kind = "finished"
    /\ last_report.message_size = u64(1536)
    /\ last_report.size_shown = [hundredths |-> 150, unit |-> "KB"]
    /\ last_report.total_bytes = u64(3072)
    /\ last_report.total_shown = [hundredths |-> 300, unit |-> "KB"]

\* C14 (as claimed): no peer of the pending list has had an outbound session
\* opened, and every peer has at most num_queries_per_connection sessions per
\* connection-established event handled for it (the list, which no line
\* shortens, holds one entry per such event).
C14_PendingListConsumed ==
    /\ \A i \in 1..Len(peers_pending_outbound_session) :
         NumbersSentTo(peers_pending_outbound_session[i]) = <<>>
    /\ \A p \in Peers :
         Len(NumbersSentTo(p)) <=
           args.num_queries_per_connection *
             Cardinality({i \in 1..Len(peers_pending_outbound_session) :
                            peers_pending_outbound_session[i] = p})

\* C15: the keys of the measurement table are exactly the ids of the outbound
\* sessions created so far (the accepted send_query calls, a batch cut short
\* by a panic included), so no entry is ever dropped, reported ones included,
\* and every session the behaviour can still raise an event for has its entry:
\* the lookups of lines 263 and 267-269 do not miss.
C15_MeasurementTableKeys ==
    /\ DOMAIN outbound_session_measurements = 1..Len(queries)
    /\ open_outbound \subseteq DOMAIN outbound_session_measurements

\* C15 witness: of several sessions one was reported, and its entry is still
\* in the table.
C15_Witness ==
    /\ Len(queries) >= 2
    /\ last_report.kind # "none"
    /\ last_report.session \notin open_outbound
    /\ last_report.session \in DOMAIN outbound_session_measurements

\* C16: when the feeder is entered (the last expected inbound session has
\* arrived) and the behaviour knows every claimed session, the handler
\* returns: the table is then empty and every claimed session was sent its
\* start, its num_messages_per_session payloads and its close, none rejected.
C16_FeedTerminates ==
    (/\ pc = "feed_start"
     /\ DOMAIN inbound_session_to_messages \subseteq live_inbound)
      ~> (/\ pc \in {"await", "exited"}
          /\ inbound_session_to_messages = <<>>
          /\ \A session \in DOMAIN calls :
               /\ Ops(calls[session]) = Lifecycle
               /\ Rejected(calls[session]) = {})

\* C16 witness: two sessions of two payloads each were fed and closed, and
\* main waits for the next event.
C16_Witness ==
    /\ pc = "await"
    /\ args.num_messages_per_session = 2
    /\ DOMAIN calls = {1, 2}
    /\ inbound_session_to_messages = <<>>
    /\ \A session \in DOMAIN calls : Ops(calls[session]) = Lifecycle

\* C17: once a payload (or a close) has been issued on any inbound session,
\* every claimed session has been sent its start message, accepted, as its
\* first call.
C17_StartToAllBeforeAnyPayload ==
    (\E session \in DOMAIN calls :
        \E i \in 1..Len(calls[session]) :
            calls[session][i].op \in {"content", "close"})
      => \A session \in DOMAIN calls :
            /\ calls[session] # <<>>
            /\ calls[session][1] = [op |-> "start", ok |-> TRUE]

\* C17 witness: of two claimed sessions one has been sent its first payload
\* and the other, so far, its start message only.
C17_Witness ==
    /\ DOMAIN calls = {1, 2}
    /\ \E session \in DOMAIN calls : \E other \in DOMAIN calls :
         /\ Ops(calls[session]) = <<"start", "content">>
         /\ Ops(calls[other]) = <<"start">>

\* C18 (as claimed): print never stops on the product of the two values of a
\* start message, and the total it reports is their exact product.
C18_TotalIsExactProduct ==
    /\ last_report.kind # "overflow"
    /\ last_report.kind = "finished" =>
         [k \in 1..(2 * TopDigit) |->
            IF k \in Digits THEN last_report.total_bytes[k] ELSE 0]
           = wide_mul(last_report.message_size, last_report.num_messages)

\* the number of payloads issued on an inbound session so far
PayloadsSent(session) ==
    Cardinality({i \in 1..Len(calls[session]) :
                   calls[session][i].op = "content"})

\* C19: the numbers of payloads issued on any two claimed sessions never
\* differ by more than one, and a close has been issued on a session only if
\* every claimed session has been issued all its num_messages_per_session
\* payloads.
C19_RoundRobin ==
    \A session \in DOMAIN calls : \A other \in DOMAIN calls :
        /\ PayloadsSent(session) - PayloadsSent(other) <= 1
        /\ "close" \in {calls[session][i].op : i \in 1..Len(calls[session])}
             => PayloadsSent(other) = args.num_messages_per_session

\* C19 witness: in the second pass over two sessions, one has its second
\* payload and the other not yet.
C19_Witness ==
    /\ pc = "feed_retain"
    /\ DOMAIN calls = {1, 2}
    /\ \E session \in DOMAIN calls : \E other \in DOMAIN calls :
         /\ PayloadsSent(session) = 2
         /\ PayloadsSent(other) = 1

\* C20: whenever main waits for the next event, either nothing has been sent
\* to an inbound session yet, the table and preprepared_messages hold
\* num_expected_inbound_sessions batches between them and every entry of the
\* table has its num_messages_per_session buffers, or the feeder has run and
\* the table and preprepared_messages are both empty.
C20_FeedTableBetweenEvents ==
    pc = "await" =>
        IF \A session \in DOMAIN calls : calls[session] = <<>>
        THEN /\ Cardinality(DOMAIN inbound_session_to_messages)
                  + Len(preprepared_messages)
                  = args.num_expected_inbound_sessions
             /\ \A session \in DOMAIN inbound_session_to_messages :
                  Len(inbound_session_to_messages[session])
                    = args.num_messages_per_session
        ELSE /\ inbound_session_to_messages = <<>>
             /\ preprepared_messages = <<>>

\* C20 witness: the single expected session was fed its payloads and closed,
\* and main waits for a further event.
C20_Witness ==
    /\ pc = "await"
    /\ events_read < MaxEvents
    /\ args.num_expected_inbound_sessions = 1
    /\ args.num_messages_per_session >= 1
    /\ DOMAIN calls = {1}
    /\ Ops(calls[1]) = Lifecycle
    /\ inbound_session_to_messages = <<>>
    /\ preprepared_messages = <<>>

====
